---- MODULE Spec2Model ----
(***************************************************************************)
(* Agent execution layer of the marketing system: the EnhancedBaseAgent    *)
(* wrapper (metrics, retry with linear backoff, timeout, error             *)
(* containment) and the core logic of the agents that run under it; and    *)
(* the EnhancedOrchestrator that runs the agents as a phased workflow,     *)
(* keeps the workflow history and reports the system status.               *)
(*                                                                         *)
(* A WorkflowState is a function from field names to values; the Python    *)
(* dict spread {**state, k: v} is Merge.  Wall-clock values are not        *)
(* modelled: every timestamp is the token Now, every sleep is recorded by  *)
(* its duration.                                                           *)
(***************************************************************************)
EXTENDS Integers, Sequences, FiniteSets, TLC

VARIABLES metrics, config, inv, invocations, updates

\* invocations of the agents that overlap on one event loop
VARIABLES tasks

vars == <<metrics, config, inv, invocations, updates, tasks>>

\* the orchestrator: its agents' metrics, its history, the operation in
\* flight, the wall clock in seconds and the answer to the last query
VARIABLES agents, workflow_history, wf, clock, reply

orch_vars == <<agents, workflow_history, wf, clock, reply>>

all_vars == <<vars, orch_vars>>

(***************************************************************************)
(* Bounds of the model.                                                    *)
(***************************************************************************)
MaxInvocations == 2
MaxUpdates == 1
MaxRetry == 3
MaxDelay == 2
\* lines of the longest calendar the capability answers with
CalendarDays == 6
\* the interpreter's limit on nested calls, counted in restarts of a dialogue
RecursionLimit == 1
\* operations on one orchestrator, seconds of its clock, largest history limit
MaxOperations == 2
\* invocations that overlap on one event loop
MaxTasks == 2
MaxClock == 1
MaxLimit == 2

(***************************************************************************)
(* Agents.  An agent is identified by the words of its name, so that the    *)
(* name and the key derived from it can both be computed.                  *)
(***************************************************************************)
TrendAnalysisAgent == <<"Trend", "Analysis", "Agent">>
EnhancedTrendAnalysisAgent == <<"Enhanced", "Trend", "Analysis", "Agent">>
EnhancedContentStrategyAgent == <<"Enhanced", "Content", "Strategy", "Agent">>
SocialMediaAgent == <<"Social", "Media", "Agent">>
TwitterAgent == <<"Twitter", "Specialist", "Agent">>

Agents == {TrendAnalysisAgent, EnhancedTrendAnalysisAgent,
           EnhancedContentStrategyAgent, SocialMediaAgent, TwitterAgent}

\* the other agents the orchestrator constructs
ContentWriterAgent == <<"Content", "Writer", "Agent">>
ImageGenerationAgent == <<"Image", "Generation", "Agent">>
VisualSuggestionAgent == <<"Visual", "Suggestion", "Agent">>
ClientBriefingAgent == <<"Client", "Briefing", "Agent">>

RECURSIVE Join(_, _)
Join(words, sep) ==
    IF Len(words) = 0 THEN ""
    ELSE IF Len(words) = 1 THEN words[1]
    ELSE words[1] \o sep \o Join(Tail(words), sep)

Name(a) == Join(a, " ")

\* str.lower on the words that occur in agent names
lower(w) ==
    CASE w = "Trend" -> "trend"
      [] w = "Analysis" -> "analysis"
      [] w = "Agent" -> "agent"
      [] w = "Enhanced" -> "enhanced"
      [] w = "Content" -> "content"
      [] w = "Strategy" -> "strategy"
      [] w = "Social" -> "social"
      [] w = "Media" -> "media"
      [] w = "Twitter" -> "twitter"
      [] w = "Specialist" -> "specialist"
      [] w = "Writer" -> "writer"
      [] w = "Image" -> "image"
      [] w = "Generation" -> "generation"
      [] w = "Visual" -> "visual"
      [] w = "Suggestion" -> "suggestion"
      [] w = "Client" -> "client"
      [] w = "Briefing" -> "briefing"
      [] OTHER -> w

\* f"{self.name.lower().replace(' ', '_')}_error"
ErrorKey(a) == Join([i \in 1..Len(a) |-> lower(a[i])], "_") \o "_error"

(***************************************************************************)
(* Workflow states.                                                        *)
(***************************************************************************)
EmptyState == <<>>
Now == "now"
\* Python's None, where a field holds it
None == "<None>"
Topic == "Sustainable Fashion"
Post == "post"

\* {**s, **t}
Merge(s, t) == [k \in DOMAIN s \cup DOMAIN t |-> IF k \in DOMAIN t THEN t[k] ELSE s[k]]

\* dict.get(k, default)
Get(d, k, default) == IF k \in DOMAIN d THEN d[k] ELSE default

\* state.get(k) is truthy, for a text field
HasText(s, k) == k \in DOMAIN s /\ s[k] \notin {"", None}
\* state.get(k, []) is truthy, for a list field
HasItems(s, k) == k \in DOMAIN s /\ Len(s[k]) > 0

InputStates ==
    { EmptyState,
      [topic |-> Topic],
      [topic |-> ""],
      [topic |-> Topic, draft |-> Post, platform |-> "twitter",
       content |-> <<[day |-> "1", content |-> Post]>>] }

(***************************************************************************)
(* Outcomes of a piece of code: it returns a state or raises an exception. *)
(* calls counts the requests made to the external generation capability.   *)
(***************************************************************************)
Returns(s, n) == [kind |-> "return", state |-> s, calls |-> n]
Raises(type, msg, n) == [kind |-> "raise", exc |-> [type |-> type, msg |-> msg], calls |-> n]

\* Exception classes caught by "except Exception"
ExceptionTypes == {"ValueError", "TimeoutError", "APIError", "RuntimeError",
                   "AttributeError", "RecursionError"}

\* What the external capability does with one request made during an attempt
ExtOutcomes == {"ok", "fail"}

\* The module-level client is configured (an API key is present)
client == TRUE

(***************************************************************************)
(* Core logic of the agents.  ext is the outcome of the first request of   *)
(* the attempt, ext2 of the second (only the content strategy makes two).  *)
(***************************************************************************)
\* a variant that asks the capability without looking at the topic
TrendAnalysisAgent_execute_core_unchecked(s, ext) ==
    IF ~client
    THEN Returns(Merge(s, [trend_analysis_report |-> "Trend analysis could not be performed."]), 0)
    ELSE IF ext = "ok"
    THEN Returns(Merge(s, [trend_analysis_report |-> "report"]), 1)
    ELSE Returns(Merge(s, [trend_analysis_report |-> "Error: Could not generate trend report."]), 1)

TrendAnalysisAgent_execute_core(s, ext) ==
    IF ~client \/ ~HasText(s, "topic")
    THEN Returns(Merge(s, [trend_analysis_report |-> "Trend analysis could not be performed."]), 0)
    ELSE IF ext = "ok"
    THEN Returns(Merge(s, [trend_analysis_report |-> "report"]), 1)
    ELSE Returns(Merge(s, [trend_analysis_report |-> "Error: Could not generate trend report."]), 1)

EnhancedTrendAnalysisAgent_execute_core(s, ext) ==
    IF ~HasText(s, "topic")
    THEN Raises("ValueError", "Topic not provided in state", 0)
    ELSE IF ext = "ok"
    THEN Returns(Merge(s, [trend_analysis_report |-> "report",
                           trend_insights |-> [trend_count |-> 0],
                           analysis_timestamp |-> Now]), 1)
    ELSE Raises("APIError", "capability failed", 1)

\* _parse_calendar: one entry for every line "Day | Type | Platform | Theme |
\* Description" of the answer
_parse_calendar(lines) ==
    [i \in 1..lines |-> [day |-> ToString(i), type |-> "post", platform |-> "instagram",
                         theme |-> "eco", description |-> "idea"]]

\* What the capability does with the calendar request: it fails, it answers
\* with one line, or it answers with a line for every day of the month
CalendarOutcomes == ExtOutcomes \cup {"month"}

\* a variant that returns the strategy alone, without the fields of the
\* state it was given
EnhancedContentStrategyAgent_execute_core_fresh(s, ext, ext2) ==
    IF ~HasText(s, "topic")
    THEN Raises("ValueError", "Topic not provided in state", 0)
    ELSE IF ext # "ok"
    THEN Raises("APIError", "capability failed", 1)
    ELSE LET content_calendar ==
                 IF ext2 = "ok" THEN _parse_calendar(1)
                 ELSE IF ext2 = "month" THEN _parse_calendar(CalendarDays)
                 ELSE <<>>
         IN  Returns([topic |-> s.topic,
                      content_strategy |-> [raw_text |-> "strategy"],
                      content_calendar |-> content_calendar,
                      campaign_brief |-> [total_posts |-> Len(content_calendar)],
                      strategy_timestamp |-> Now], 2)

EnhancedContentStrategyAgent_execute_core(s, ext, ext2) ==
    IF ~HasText(s, "topic")
    THEN Raises("ValueError", "Topic not provided in state", 0)
    ELSE IF ext # "ok"
    THEN Raises("APIError", "capability failed", 1)
    ELSE LET content_calendar ==
                 IF ext2 = "ok" THEN _parse_calendar(1)
                 ELSE IF ext2 = "month" THEN _parse_calendar(CalendarDays)
                 ELSE <<>>
         IN  Returns(Merge(s, [content_strategy |-> [raw_text |-> "strategy"],
                               content_calendar |-> content_calendar,
                               campaign_brief |-> [total_posts |-> Len(content_calendar)],
                               strategy_timestamp |-> Now]), 2)

\* A platform agent called through its blocking adapter while the event loop
\* is running: asyncio.run refuses, the core logic of the platform agent
\* does not run.
NestedInvoke(platform_state) ==
    Raises("RuntimeError", "asyncio.run() cannot be called from a running event loop", 0)

platform_agents == {"twitter", "instagram", "facebook", "tiktok", "blog"}

SocialMediaAgent_execute_core(s) ==
    IF ~HasItems(s, "content")
    THEN Raises("ValueError", "State must include 'content'", 0)
    ELSE LET platforms == IF "platforms" \in DOMAIN s THEN s.platforms
                          ELSE <<"instagram", "facebook">>
             known == {platforms[i] : i \in 1..Len(platforms)} \cap platform_agents
             optimize(piece) ==
                 [original_content |-> piece,
                  platform_optimizations |->
                      [p \in known |->
                          LET r == NestedInvoke([draft |-> piece.content, platform |-> p])
                          IN  IF r.kind = "return"
                              THEN (IF "specialized_draft" \in DOMAIN r.state
                                    THEN r.state.specialized_draft ELSE "")
                              ELSE "Error optimizing for " \o p \o ": " \o r.exc.msg]]
         IN  Returns([optimized_content |-> [i \in 1..Len(s.content) |-> optimize(s.content[i])]], 0)

TwitterAgent_execute_core(s, ext) ==
    IF ~HasText(s, "draft")
    THEN Raises("ValueError", "State must include 'draft'", 0)
    ELSE IF ext = "ok"
    THEN Returns([specialized_draft |-> "tweet"], 1)
    ELSE Raises("APIError", "capability failed", 1)

\* the module-level clients of the image, suggestion and briefing agents
\* are configured as well
ContentWriterAgent_execute_core(s, ext) ==
    IF ~HasText(s, "topic") \/ ~HasText(s, "selected_idea")
    THEN Returns(Merge(s, [final_content |->
                               "Error: Missing topic or selected idea for the writer."]), 0)
    ELSE IF ext = "ok"
    THEN Returns(Merge(s, [final_content |-> "draft"]), 1)
    ELSE Returns(Merge(s, [final_content |->
                               "Sorry, I couldn't generate a draft for this idea."]), 1)

ImageGenerationAgent_execute_core(s, ext) ==
    IF ~client
    THEN Returns(Merge(s, [image_path |-> "Error: ImageGenerationAgent is not configured."]), 0)
    ELSE IF ~HasText(s, "image_prompt")
    THEN Returns(Merge(s, [image_path |-> "Error: Image prompt is required."]), 0)
    ELSE IF ext = "ok"
    THEN Returns(Merge(s, [image_path |-> "output/images/generated_image.png"]), 1)
    ELSE Returns(Merge(s, [image_path |-> "Error: capability failed"]), 1)

VisualSuggestionAgent_execute_core(s, ext) ==
    IF ~HasText(s, "final_content")
    THEN Returns(Merge(s, [visual_suggestions |->
                               "Error: Final content is required to suggest visuals."]), 0)
    ELSE IF ~client
    THEN Returns(Merge(s, [visual_suggestions |->
             "VisualSuggestionAgent is not configured due to API key error."]), 0)
    ELSE IF ext = "ok"
    THEN Returns(Merge(s, [visual_suggestions |->
                               <<[description |-> "idea", prompt |-> "prompt"]>>]), 1)
    ELSE Returns(Merge(s, [visual_suggestions |-> <<>>]), 1)

\* ClientBriefingAgent._execute_core is a dialogue.  brief is the position in
\* it: the attempt of the wrapper, the depth of the restarts, the turn of the
\* question loop and whether the questions or the synthesis come next.
MaxTurns == 6
NoBriefing == [attempt |-> 0, depth |-> 0, turn |-> 0, stage |-> "ask"]

\* what the capability answers in the question loop
Responses == {"question", "BRIEF_READY", "fail"}
\* what the user answers to "are you satisfied with this direction?"
Confirmations == {"nai", "oxi"}

ErrorBrief(s) == Returns(Merge(s, [creative_brief |-> "Error: Could not create brief."]), 1)

\* a variant whose question loop has no limit on its turns
ClientBriefingAgent_ask_unlimited(s, brief, resp) ==
    IF resp = "fail"
    THEN (IF brief.depth > 0 THEN ErrorBrief(s)
          ELSE Raises("APIError", "capability failed", 1))
    ELSE IF resp = "BRIEF_READY"
    THEN [kind |-> "continue", brief |-> [brief EXCEPT !.stage = "synthesis"]]
    ELSE [kind |-> "continue", brief |-> [brief EXCEPT !.turn = (@ + 1) % MaxTurns]]

\* One turn of the question loop.  A failure of the capability is outside
\* every try of its own frame: in a restarted dialogue the frame that
\* restarted it catches it, in the first dialogue it leaves the core logic.
ClientBriefingAgent_ask(s, brief, resp) ==
    IF resp = "fail"
    THEN (IF brief.depth > 0 THEN ErrorBrief(s)
          ELSE Raises("APIError", "capability failed", 1))
    ELSE IF resp = "BRIEF_READY"
    THEN [kind |-> "continue", brief |-> [brief EXCEPT !.stage = "synthesis"]]
    ELSE [kind |-> "continue",
          brief |-> [brief EXCEPT !.turn = @ + 1,
                                  !.stage = IF brief.turn + 1 < MaxTurns THEN "ask"
                                            ELSE "synthesis"]]

\* The synthesis of the brief and the confirmation.  A user who is not
\* satisfied restarts the dialogue by a nested call, which the interpreter
\* refuses beyond its limit on nested calls; the refusal is caught as any
\* other failure of the synthesis.
ClientBriefingAgent_synthesis(s, brief, ext, confirmation) ==
    IF ext # "ok" THEN ErrorBrief(s)
    ELSE IF confirmation = "nai"
    THEN Returns(Merge(s, [creative_brief |-> "brief", topic |-> Get(s, "topic", None)]), 1)
    ELSE IF brief.depth + 1 > RecursionLimit THEN ErrorBrief(s)
    ELSE [kind |-> "continue",
          brief |-> [brief EXCEPT !.depth = @ + 1, !.turn = 0, !.stage = "ask"]]

\* How a whole dialogue goes: the synthesis works and the user is satisfied,
\* the synthesis fails, or it works and the user is never satisfied
BriefingOutcomes == ExtOutcomes \cup {"oxi"}

\* The dialogue from the position brief to its end, when the capability and
\* the user do the same at every step: ext is what the capability does in
\* the question loop (it asks a question, or fails), ext2 how the synthesis
\* and the confirmation go.
RECURSIVE ClientBriefingAgent_dialogue(_, _, _, _)

DialogueGoesOn(r, s, ext, ext2) ==
    IF r.kind = "continue" THEN ClientBriefingAgent_dialogue(s, r.brief, ext, ext2) ELSE r

ClientBriefingAgent_dialogue(s, brief, ext, ext2) ==
    DialogueGoesOn(
        IF brief.stage = "ask"
        THEN ClientBriefingAgent_ask(s, brief, IF ext = "ok" THEN "question" ELSE "fail")
        ELSE ClientBriefingAgent_synthesis(s, brief, IF ext2 = "fail" THEN "fail" ELSE "ok",
                                           IF ext2 = "ok" THEN "nai" ELSE "oxi"),
        s, ext, ext2)

ClientBriefingAgent_execute_core(s, ext, ext2) ==
    IF ~client
    THEN Returns(Merge(s, [creative_brief |->
                               "Briefing failed. Client Briefing Agent is not configured."]), 0)
    ELSE ClientBriefingAgent_dialogue(s, NoBriefing, ext, ext2)

_execute_core(a, s, ext, ext2) ==
    CASE a = ClientBriefingAgent -> ClientBriefingAgent_execute_core(s, ext, ext2)
      [] a = TrendAnalysisAgent -> TrendAnalysisAgent_execute_core(s, ext)
      [] a = ContentWriterAgent -> ContentWriterAgent_execute_core(s, ext)
      [] a = ImageGenerationAgent -> ImageGenerationAgent_execute_core(s, ext)
      [] a = VisualSuggestionAgent -> VisualSuggestionAgent_execute_core(s, ext)
      [] a = EnhancedTrendAnalysisAgent -> EnhancedTrendAnalysisAgent_execute_core(s, ext)
      [] a = EnhancedContentStrategyAgent -> EnhancedContentStrategyAgent_execute_core(s, ext, ext2)
      [] a = SocialMediaAgent -> SocialMediaAgent_execute_core(s)
      [] a = TwitterAgent -> TwitterAgent_execute_core(s, ext)

\* ContentStrategyAgent is a plain BaseAgent: invoke is its whole run
ContentStrategyAgent == <<"Content", "Strategy", "Agent">>

ContentStrategyAgent_invoke(s, ext) ==
    IF ~HasText(s, "topic")
    THEN Returns(Merge(s, [ideas |-> <<>>]), 0)
    ELSE IF ext = "ok"
    THEN Returns(Merge(s, [ideas |-> <<"idea1", "idea2">>]), 1)
    ELSE Returns(Merge(s, [ideas |-> <<>>]), 1)

(***************************************************************************)
(* The execution wrapper, EnhancedBaseAgent.                               *)
(***************************************************************************)
\* AgentConfig defaults
DefaultRetryCount == 3
DefaultRetryDelay == 1
DefaultTimeout == 30

AgentConfig == [retry_count |-> DefaultRetryCount,
                retry_delay |-> DefaultRetryDelay,
                timeout |-> DefaultTimeout]

\* EnhancedBaseAgent.__init__: success_rate 1.0 is kept as the fraction 1/1
AgentMetrics == [total_calls |-> 0, error_count |-> 0,
                 success_rate |-> [num |-> 1, den |-> 1]]

NoInvocation == [pc |-> "idle", agent |-> <<>>, state |-> EmptyState,
                 given |-> EmptyState, attempt |-> 0,
                 log |-> <<>>, sleeps |-> <<>>, ext_calls |-> 0, overran |-> FALSE,
                 cap_failed |-> FALSE,
                 last_error |-> [type |-> "None", msg |-> ""],
                 returned |-> EmptyState, raised |-> FALSE,
                 before |-> AgentMetrics, cfg |-> AgentConfig]

\* The core logic is suspended on an await while it waits for the capability.
\* Every agent calls the synchronous client inside its coroutine, so the
\* event loop is held until the request has returned.
AwaitsCapability(a) == FALSE

\* asyncio.wait_for can abandon the core logic only where it is suspended.
\* overrun: the attempt takes longer than cfg.timeout.
_execute_with_timeout(a, s, cfg, ext, ext2, overrun) ==
    LET core == _execute_core(a, s, ext, ext2)
    IN  IF overrun /\ AwaitsCapability(a)
        THEN Raises("TimeoutError", "Agent execution timed out", core.calls)
        ELSE core

\* a variant that allows one attempt too many
RetryAgain_inclusive(attempt, cfg) == attempt <= cfg.retry_count

\* "if attempt < self.config.retry_count": another attempt follows
RetryAgain(attempt, cfg) == attempt < cfg.retry_count

\* a variant with a constant delay
BackoffDelay_constant(attempt, cfg) == cfg.retry_delay

\* "asyncio.sleep(self.config.retry_delay * (attempt + 1))"
BackoffDelay(attempt, cfg) == cfg.retry_delay * (attempt + 1)

\* "except Exception as e" in execute_with_metrics
Caught(exc) == exc.type \in ExceptionTypes

\* a variant that recomputes the rate without counting the error
RecordFailure_rate_only(m) ==
    [m EXCEPT !.success_rate = [num |-> m.total_calls - m.error_count, den |-> m.total_calls]]

\* the metrics update of the except branch
RecordFailure(m) ==
    LET errors == m.error_count + 1
    IN  [m EXCEPT !.error_count = errors,
                  !.success_rate = [num |-> m.total_calls - errors, den |-> m.total_calls]]

\* a variant that counts the successful attempt as one more call
RecordSuccess_counting(m) == [m EXCEPT !.total_calls = @ + 1]

\* the metrics update of the success branch: execution_time and
\* last_execution only, which are wall-clock values
RecordSuccess(m) == m

\* a variant that reports the failure without the agent-specific key
_handle_error_without_key(a, s, exc) ==
    Merge(s, [error |-> [error |-> exc.msg, agent |-> Name(a), timestamp |-> Now]])

_handle_error(a, s, exc) ==
    LET error_info == [error |-> exc.msg, agent |-> Name(a), timestamp |-> Now]
    IN  Merge(s, (ErrorKey(a) :> exc.msg) @@ [error |-> error_info])

(***************************************************************************)
(* The orchestrator, EnhancedOrchestrator.                                 *)
(***************************************************************************)
\* _initialize_agents: one instance of every agent, by phase key
_initialize_agents ==
    [trend_analysis |-> EnhancedTrendAnalysisAgent,
     content_strategy |-> EnhancedContentStrategyAgent,
     content_writer |-> ContentWriterAgent,
     social_media |-> SocialMediaAgent,
     image_generation |-> ImageGenerationAgent,
     visual_suggestion |-> VisualSuggestionAgent,
     client_briefing |-> ClientBriefingAgent]

AgentKeys == DOMAIN _initialize_agents

\* seq[:n]
Take(seq, n) == SubSeq(seq, 1, IF n < Len(seq) THEN n ELSE Len(seq))

\* seq[start:] for a start index of either sign
SliceFrom(seq, start) ==
    LET L == Len(seq)
        first == IF start < 0 THEN (IF L + start < 0 THEN 0 ELSE L + start)
                 ELSE (IF start > L THEN L ELSE start)
    IN  SubSeq(seq, first + 1, L)

\* get_metrics: a copy of the agent's metrics with its name and configuration
get_metrics(a, m, cfg) ==
    [execution_time |-> Now, success_rate |-> m.success_rate, last_execution |-> Now,
     total_calls |-> m.total_calls, error_count |-> m.error_count,
     agent_name |-> Name(a), config |-> cfg]

\* The loop of _execute_safe run to its end: the first `failures` attempts
\* find the capability failing, the later ones find it working.
RECURSIVE _execute_safe_loop(_, _, _, _, _, _)

\* what the loop does with the outcome r of one attempt
AfterAttempt(r, a, s, cfg, failures, ext2, attempt) ==
    IF r.kind = "return" THEN r
    ELSE IF RetryAgain(attempt, cfg)
    THEN _execute_safe_loop(a, s, cfg, failures, ext2, attempt + 1)
    ELSE r

_execute_safe_loop(a, s, cfg, failures, ext2, attempt) ==
    AfterAttempt(_execute_with_timeout(a, s, cfg, IF attempt < failures THEN "fail" ELSE "ok",
                                       ext2, FALSE),
                 a, s, cfg, failures, ext2, attempt)

\* a variant that lets the terminal failure escape to the caller
Contained_escaping(a, s, m, r) ==
    IF r.kind = "return"
    THEN [kind |-> "return", state |-> r.state, metrics |-> RecordSuccess(m)]
    ELSE [kind |-> "raise", exc |-> r.exc, state |-> s, metrics |-> RecordFailure(m)]

\* the try of execute_with_metrics around the outcome r of _execute_safe:
\* the state returned to the caller and the agent's metrics afterwards
Contained(a, s, m, r) ==
    IF r.kind = "return"
    THEN [kind |-> "return", state |-> r.state, metrics |-> RecordSuccess(m)]
    ELSE IF Caught(r.exc)
    THEN [kind |-> "return", state |-> _handle_error(a, s, r.exc),
          metrics |-> RecordFailure(m)]
    ELSE [kind |-> "raise", exc |-> r.exc, state |-> s, metrics |-> m]

\* a variant that recomputes success_rate on every outcome
await_execute_with_metrics_rated(a, s, m, cfg, failures, ext2) ==
    LET r == Contained(a, s, [m EXCEPT !.total_calls = @ + 1],
                       _execute_safe_loop(a, s, cfg, failures, ext2, 0))
    IN  [r EXCEPT !.metrics.success_rate =
                      [num |-> r.metrics.total_calls - r.metrics.error_count,
                       den |-> r.metrics.total_calls]]

\* "await agent.execute_with_metrics(state)" from call to return
await_execute_with_metrics(a, s, m, cfg, failures, ext2) ==
    Contained(a, s, [m EXCEPT !.total_calls = @ + 1],
              _execute_safe_loop(a, s, cfg, failures, ext2, 0))

\* the workflow_config argument: a mapping, or something that is none
Mapping(d) == [kind |-> "dict", items |-> d]
NotAMapping == [kind |-> "NoneType", items |-> <<>>]

WorkflowConfigs == {NotAMapping, Mapping(<<>>), Mapping([topic |-> Topic])}

\* f"workflow_{int(start_time.timestamp())}"
WorkflowId(seconds) == "workflow_" \o ToString(seconds)

\* the initial state of execute_workflow; workflow_config.get fails on a
\* value that is no mapping
InitialState(workflow_id, workflow_config) ==
    IF workflow_config.kind # "dict"
    THEN Raises("AttributeError", "'NoneType' object has no attribute 'get'", 0)
    ELSE LET c == workflow_config.items
         IN  Returns([workflow_id |-> workflow_id,
                      start_time |-> Now,
                      config |-> c,
                      topic |-> Get(c, "topic", None),
                      target_audience |-> Get(c, "target_audience", "general"),
                      content_goals |-> Get(c, "content_goals", <<"engagement">>),
                      platforms |-> Get(c, "platforms", <<"instagram", "facebook">>),
                      duration |-> Get(c, "duration", 30),
                      budget |-> Get(c, "budget", 1000)], 0)

\* the fixed order of the phases of _execute_phases
Phases == <<"trend_analysis", "content_strategy", "content_creation",
            "visual_assets", "social_media", "client_briefing">>

\* sample sizes of the batch phases
SampleDays == 5
SampleVisuals == 3

\* The loop of _create_content_batch over the sampled calendar entries: the
\* pieces created and the writer's metrics afterwards.  A failure that
\* escapes the writer is caught and the entry is left out.
RECURSIVE content_batch_loop(_, _, _, _, _)

\* a variant that gives the batch up at the first item the writer could
\* not write
content_batch_step_aborting(r, state, sample_days, failures, content_pieces) ==
    IF r.kind = "return" /\ Get(r.state, "final_content", "") = "draft"
    THEN content_batch_loop(state, Tail(sample_days), r.metrics, failures,
             Append(content_pieces, [day |-> Get(Head(sample_days), "day", None),
                                     content |-> Get(r.state, "content", ""),
                                     metadata |-> r.state]))
    ELSE [content_pieces |-> content_pieces, metrics |-> r.metrics]

\* the body of the loop after the writer has answered with r
content_batch_step(r, state, sample_days, failures, content_pieces) ==
    content_batch_loop(state, Tail(sample_days), r.metrics, failures,
        IF r.kind = "return"
        THEN Append(content_pieces, [day |-> Get(Head(sample_days), "day", None),
                                     content |-> Get(r.state, "content", ""),
                                     metadata |-> r.state])
        ELSE content_pieces)

content_batch_loop(state, sample_days, m, failures, content_pieces) ==
    IF sample_days = <<>>
    THEN [content_pieces |-> content_pieces, metrics |-> m]
    ELSE content_batch_step(
             await_execute_with_metrics(
                 ContentWriterAgent,
                 Merge(state, [content_type |-> Get(Head(sample_days), "type", "post"),
                               platform |-> Get(Head(sample_days), "platform", "instagram"),
                               theme |-> Get(Head(sample_days), "theme", "general")]),
                 m, AgentConfig, failures, "ok"),
             state, sample_days, failures, content_pieces)

\* the result of the content-creation phase
content_results(calendar, loop) ==
    [result |-> [content |-> loop.content_pieces,
                 total_created |-> Len(loop.content_pieces),
                 total_planned |-> Len(calendar)],
     metrics |-> loop.metrics]

\* a variant that writes content for the whole calendar
_create_content_batch_unsampled(state, m, failures) ==
    content_results(Get(state, "content_calendar", <<>>),
                    content_batch_loop(state, Get(state, "content_calendar", <<>>),
                                       m, failures, <<>>))

_create_content_batch(state, m, failures) ==
    content_results(Get(state, "content_calendar", <<>>),
                    content_batch_loop(state, Take(Get(state, "content_calendar", <<>>), SampleDays),
                                       m, failures, <<>>))

\* The loop of _create_visual_assets over the sampled content pieces
RECURSIVE visual_assets_loop(_, _, _, _, _)

\* a variant that keeps a visual only when the image agent was given a prompt
visual_assets_step_prompted(r, state, sample, failures, visuals) ==
    visual_assets_loop(state, Tail(sample), r.metrics, failures,
        IF r.kind = "return" /\ HasText(r.state, "image_prompt")
        THEN Append(visuals, [content_id |-> Get(Head(sample), "day", None),
                              visual_prompt |-> Get(r.state, "image_prompt", ""),
                              suggestions |-> Get(r.state, "suggestions", <<>>)])
        ELSE visuals)

visual_assets_step(r, state, sample, failures, visuals) ==
    visual_assets_loop(state, Tail(sample), r.metrics, failures,
        IF r.kind = "return"
        THEN Append(visuals, [content_id |-> Get(Head(sample), "day", None),
                              visual_prompt |-> Get(r.state, "image_prompt", ""),
                              suggestions |-> Get(r.state, "suggestions", <<>>)])
        ELSE visuals)

visual_assets_loop(state, sample, m, failures, visuals) ==
    IF sample = <<>>
    THEN [visuals |-> visuals, metrics |-> m]
    ELSE visual_assets_step(
             await_execute_with_metrics(
                 ImageGenerationAgent,
                 Merge(state, [content |-> Get(Head(sample), "content", ""),
                               content_type |-> "social_media_post"]),
                 m, AgentConfig, failures, "ok"),
             state, sample, failures, visuals)

visual_results(loop) ==
    [result |-> [visuals |-> loop.visuals, total_created |-> Len(loop.visuals)],
     metrics |-> loop.metrics]

_create_visual_assets(state, content, m, failures) ==
    visual_results(visual_assets_loop(state, Take(Get(content, "content", <<>>), SampleVisuals),
                                      m, failures, <<>>))

\* the error markers of the agents
ErrorKeys == {ErrorKey(_initialize_agents[p]) : p \in AgentKeys}

\* "error" in k, for the keys that occur in states, metrics and records
KeyMentionsError(k) == k \in {"error", "error_count"} \cup ErrorKeys

\* "error" in str(state): the texts the agents write say "Error", which is
\* another string, so only the keys count
StateMentionsError(s) == \E k \in DOMAIN s : KeyMentionsError(k)

\* "error" in str(phase), for the result of each phase
PhaseMentionsError(name, phase) ==
    CASE name = "content_creation" ->
             \E i \in 1..Len(phase.content) : StateMentionsError(phase.content[i].metadata)
      [] name = "visual_assets" -> FALSE
      [] OTHER ->
             \/ StateMentionsError(phase.output)
             \/ \E k \in DOMAIN phase.metrics : KeyMentionsError(k)

_compile_results(results, workflow_id) ==
    LET total_agents == Cardinality(AgentKeys)
        successful_phases ==
            Cardinality({p \in DOMAIN results.phases :
                             ~PhaseMentionsError(p, results.phases[p])})
    IN  [workflow_id |-> workflow_id,
         status |-> "completed",
         duration_seconds |-> Now,
         phases |-> results.phases,
         summary |-> [total_agents |-> total_agents,
                      successful_phases |-> successful_phases,
                      success_rate |-> [num |-> successful_phases, den |-> total_agents],
                      content_pieces_created |-> results.phases.content_creation.total_created,
                      visuals_created |-> results.phases.visual_assets.total_created],
         timestamp |-> Now]

\* a variant that answers without the workflow id
_handle_workflow_error_anonymous(workflow_id, error) ==
    [status |-> "failed", error |-> error, timestamp |-> Now]

_handle_workflow_error(workflow_id, error) ==
    [workflow_id |-> workflow_id, status |-> "failed", error |-> error, timestamp |-> Now]

\* a variant that keeps only the latest record
StoreInHistory_latest(history, final_results) == <<final_results>>

\* self.workflow_history.append(final_results)
StoreInHistory(history, final_results) == Append(history, final_results)

\* get_workflow_history: workflow_history[-limit:], or [] for no history
get_workflow_history(history, limit) ==
    IF Len(history) > 0 THEN SliceFrom(history, 0 - limit) ELSE <<>>

get_agent_metrics(ag) ==
    [k \in AgentKeys |-> get_metrics(_initialize_agents[k], ag[k], AgentConfig)]

\* success_rate > 0.8, on fractions
HealthThreshold == [num |-> 4, den |-> 5]
ExceedsThreshold(rate) == rate.num * HealthThreshold.den > HealthThreshold.num * rate.den

\* a variant that is content with one healthy agent
get_system_status_any(ag, history) ==
    [agents_initialized |-> Cardinality(AgentKeys),
     total_workflows |-> Len(history),
     last_workflow |-> IF Len(history) > 0 THEN history[Len(history)].workflow_id ELSE None,
     agent_metrics |-> get_agent_metrics(ag),
     system_health |-> IF \E k \in AgentKeys :
                              ExceedsThreshold(get_agent_metrics(ag)[k].success_rate)
                       THEN "healthy" ELSE "degraded"]

get_system_status(ag, history) ==
    [agents_initialized |-> Cardinality(AgentKeys),
     total_workflows |-> Len(history),
     last_workflow |-> IF Len(history) > 0 THEN history[Len(history)].workflow_id ELSE None,
     agent_metrics |-> get_agent_metrics(ag),
     system_health |-> IF \A k \in AgentKeys :
                              ExceedsThreshold(get_agent_metrics(ag)[k].success_rate)
                       THEN "healthy" ELSE "degraded"]

(***************************************************************************)
(* Operations.  One wrapper invocation is in flight at a time; inv keeps   *)
(* the finished invocation until the next one starts.  inv.before and      *)
(* inv.cfg record the metrics and the configuration the invocation found,  *)
(* inv.cap_failed whether the capability failed in the latest attempt.     *)
(* inv.state is the caller's mapping, inv.given what it held at the call.  *)
(***************************************************************************)
\* no answer yet
NoReply == [op |-> "none", arg |-> 0, value |-> <<>>]

NoWorkflow == [pc |-> "idle", kind |-> "none", workflow_id |-> None,
               config |-> NotAMapping, state |-> EmptyState,
               phases |-> <<>>, started |-> <<>>, inputs |-> <<>>,
               brief |-> [NoBriefing EXCEPT !.stage = "idle"],
               returned |-> <<>>, raised |-> FALSE, runs |-> 0, workflows |-> 0]

\* a coroutine of execute_with_metrics that has not been created yet
NoTask == [pc |-> "idle", agent |-> <<>>, state |-> EmptyState, attempt |-> 0,
           before |-> AgentMetrics, returned |-> <<>>]

\* EnhancedOrchestrator.__init__
EnhancedOrchestrator_init ==
    /\ agents = [k \in AgentKeys |-> AgentMetrics]
    /\ workflow_history = <<>>
    /\ wf = NoWorkflow
    /\ clock = 0
    /\ reply = NoReply

Init ==
    /\ metrics = [a \in Agents |-> AgentMetrics]
    /\ config = [a \in Agents |-> AgentConfig]
    /\ inv = NoInvocation
    /\ invocations = 0
    /\ updates = 0
    /\ tasks = [t \in 1..MaxTasks |-> NoTask]
    /\ EnhancedOrchestrator_init

\* execute_with_metrics up to its first await: the call is counted
execute_with_metrics(a, s) ==
    /\ inv.pc \in {"idle", "done"}
    /\ invocations < MaxInvocations
    /\ metrics' = [metrics EXCEPT ![a].total_calls = @ + 1]
    /\ inv' = [NoInvocation EXCEPT !.pc = "attempt", !.agent = a, !.state = s, !.given = s,
                                   !.before = metrics[a], !.cfg = config[a]]
    /\ invocations' = invocations + 1
    /\ UNCHANGED <<config, updates, tasks>>
    /\ UNCHANGED orch_vars

\* a variant in which the agent writes its additions into the mapping it
\* was given
CallerStateAfter_in_place(s, r) == IF r.kind = "return" THEN Merge(s, r.state) ELSE s

\* The caller's mapping after an attempt with outcome r: every core and
\* _handle_error build their result as a new mapping {**state, ...} and
\* write nothing into the one they were given.
CallerStateAfter(s, r) == s

\* a request made to the capability during the attempt with outcome r failed
CapabilityFailed(r, ext, ext2) ==
    \/ r.calls >= 1 /\ ext = "fail"
    \/ r.calls >= 2 /\ ext2 = "fail"

\* One iteration of the loop of _execute_safe, and what follows it without
\* an await: the return of the result, the sleep before the next attempt,
\* or the except branch of execute_with_metrics.  Only an attempt that
\* waits for the capability can take longer than the timeout.
_execute_safe(ext, ext2, overrun) ==
    /\ inv.pc = "attempt"
    /\ LET a == inv.agent
           cfg == config[a]
           r == _execute_with_timeout(a, inv.state, cfg, ext, ext2, overrun)
           entry == [kind |-> r.kind,
                     type |-> IF r.kind = "raise" THEN r.exc.type ELSE "none"]
           ran == [inv EXCEPT !.log = Append(@, entry), !.ext_calls = @ + r.calls,
                              !.overran = overrun,
                              !.cap_failed = CapabilityFailed(r, ext, ext2),
                              !.state = CallerStateAfter(inv.state, r)]
       IN  /\ overrun => r.calls > 0
           /\ IF r.kind = "return"
              THEN /\ inv' = [ran EXCEPT !.pc = "done", !.returned = r.state]
                   /\ metrics' = [metrics EXCEPT ![a] = RecordSuccess(@)]
              ELSE IF RetryAgain(inv.attempt, cfg)
              THEN /\ inv' = [ran EXCEPT !.pc = "sleep", !.last_error = r.exc]
                   /\ UNCHANGED metrics
              ELSE IF Caught(r.exc)
              THEN /\ inv' = [ran EXCEPT !.pc = "done", !.last_error = r.exc,
                                         !.returned = _handle_error(a, inv.state, r.exc)]
                   /\ metrics' = [metrics EXCEPT ![a] = RecordFailure(@)]
              ELSE /\ inv' = [ran EXCEPT !.pc = "done", !.last_error = r.exc, !.raised = TRUE]
                   /\ UNCHANGED metrics
    /\ UNCHANGED <<config, invocations, updates, tasks>>
    /\ UNCHANGED orch_vars

\* asyncio.sleep between two attempts returns
backoff_sleep ==
    /\ inv.pc = "sleep"
    /\ inv' = [inv EXCEPT !.pc = "attempt",
                          !.sleeps = Append(@, BackoffDelay(inv.attempt, config[inv.agent])),
                          !.attempt = @ + 1]
    /\ UNCHANGED <<metrics, config, invocations, updates, tasks>>
    /\ UNCHANGED orch_vars

\* update_config(retry_count=v) or update_config(retry_delay=v), between runs
update_config(a, key, v) ==
    /\ inv.pc \in {"idle", "done"}
    /\ updates < MaxUpdates
    /\ \/ key = "retry_count" /\ v \in 0..MaxRetry
       \/ key = "retry_delay" /\ v \in 1..MaxDelay
    /\ config[a][key] # v
    /\ config' = [config EXCEPT ![a][key] = v]
    /\ updates' = updates + 1
    /\ UNCHANGED <<metrics, inv, invocations, tasks>>
    /\ UNCHANGED orch_vars

\* ContentStrategyAgent(state): BaseAgent.__call__, no wrapper, no metrics
ContentStrategyAgent_call(s, ext) ==
    /\ inv.pc \in {"idle", "done"}
    /\ invocations < MaxInvocations
    /\ LET r == ContentStrategyAgent_invoke(s, ext)
       IN  inv' = [NoInvocation EXCEPT !.pc = "done", !.agent = ContentStrategyAgent,
                                       !.state = CallerStateAfter(s, r), !.given = s,
                                       !.ext_calls = r.calls,
                                       !.returned = r.state,
                                       !.log = <<[kind |-> r.kind, type |-> "none"]>>]
    /\ invocations' = invocations + 1
    /\ UNCHANGED <<metrics, config, updates, tasks>>
    /\ UNCHANGED orch_vars

Next ==
    \/ \E a \in Agents, s \in InputStates : execute_with_metrics(a, s)
    \/ \E ext \in ExtOutcomes, ext2 \in ExtOutcomes, overrun \in BOOLEAN :
           _execute_safe(ext, ext2, overrun)
    \/ backoff_sleep
    \/ \E a \in Agents, key \in {"retry_count", "retry_delay"}, v \in 0..(MaxRetry + MaxDelay) :
           update_config(a, key, v)
    \/ \E s \in InputStates, ext \in ExtOutcomes : ContentStrategyAgent_call(s, ext)

Spec == Init /\ [][Next]_all_vars

TypeOK ==
    /\ inv.pc \in {"idle", "attempt", "sleep", "done"}
    /\ invocations \in 0..MaxInvocations
    /\ updates \in 0..MaxUpdates
    /\ \A a \in Agents : metrics[a].total_calls \in 0..MaxInvocations

(***************************************************************************)
(* Operations of the orchestrator.  One operation is in flight at a time;  *)
(* wf keeps the finished operation until the next one starts.              *)
(* wf.started records the phases begun and wf.inputs the state the first   *)
(* two agents were given.                                                  *)
(***************************************************************************)
OrchIdle == wf.pc \in {"idle", "done"}

\* how many attempts of an invocation find the capability failing
FailureCounts == 0..(DefaultRetryCount + 1)

\* arguments of execute_single_phase
SinglePhases == {"trend_analysis", "unknown"}
SinglePhaseStates == {EmptyState, [topic |-> Topic]}

\* an operation begins: wf is reset, the operations and the workflow runs so
\* far are counted
Begun(kind) ==
    [NoWorkflow EXCEPT !.kind = kind, !.runs = wf.runs + 1,
                       !.workflows = wf.workflows + (IF kind = "workflow" THEN 1 ELSE 0)]

\* the except branch of execute_workflow
WorkflowFails(exc) ==
    /\ wf' = [wf EXCEPT !.pc = "done", !.phases = <<>>, !.state = EmptyState,
                        !.returned = _handle_workflow_error(wf.workflow_id, exc.msg)]
    /\ UNCHANGED workflow_history

\* the end of execute_workflow: the results are compiled, stored and returned
WorkflowReturns(final_results) ==
    /\ wf' = [wf EXCEPT !.pc = "done", !.phases = <<>>, !.state = EmptyState,
                        !.brief = NoWorkflow.brief,
                        !.started = Append(@, "client_briefing"),
                        !.returned = final_results]
    /\ workflow_history' = StoreInHistory(workflow_history, final_results)

\* the phases whose input state wf.inputs records
RecordedInputs == {"trend_analysis", "content_strategy"}

\* a phase that is one agent invocation, after the agent has answered with r:
\* the phase result with a copy of the agent's metrics, and the move to the
\* next phase or, after the last phase, the end of the workflow
AgentPhaseReturns(name, next, input, r) ==
    /\ agents' = [agents EXCEPT ![name] = r.metrics]
    /\ IF r.kind = "raise"
       THEN WorkflowFails(r.exc)
       ELSE IF next = "done"
       THEN WorkflowReturns(
                _compile_results(
                    [phases |-> (name :> [output |-> r.state,
                                          metrics |-> get_metrics(_initialize_agents[name],
                                                                  r.metrics, AgentConfig)])
                                @@ wf.phases],
                    wf.workflow_id))
       ELSE /\ wf' = [wf EXCEPT
                  !.pc = next,
                  !.started = Append(@, name),
                  !.inputs = IF name \in RecordedInputs THEN (name :> input) @@ @ ELSE @,
                  !.phases = (name :> [output |-> r.state,
                                        metrics |-> get_metrics(_initialize_agents[name],
                                                                r.metrics, AgentConfig)])
                             @@ @]
            /\ UNCHANGED workflow_history

AgentPhase(name, next, input, failures, ext2) ==
    /\ wf.pc = name
    /\ wf.kind = "workflow"
    /\ AgentPhaseReturns(name, next, input,
                         await_execute_with_metrics(_initialize_agents[name], input,
                                                    agents[name], AgentConfig, failures, ext2))
    /\ UNCHANGED <<clock, reply>>
    /\ UNCHANGED vars

\* execute_workflow up to its first await
execute_workflow(workflow_config) ==
    /\ OrchIdle
    /\ wf.runs < MaxOperations
    /\ LET workflow_id == WorkflowId(clock)
           init == InitialState(workflow_id, workflow_config)
           begun == [Begun("workflow") EXCEPT !.workflow_id = workflow_id,
                                              !.config = workflow_config]
       IN  IF init.kind = "raise"
           THEN wf' = [begun EXCEPT !.pc = "done",
                                    !.returned = _handle_workflow_error(workflow_id, init.exc.msg)]
           ELSE wf' = [begun EXCEPT !.pc = Phases[1], !.state = init.state]
    /\ reply' = NoReply
    /\ UNCHANGED <<agents, workflow_history, clock>>
    /\ UNCHANGED vars

phase_trend_analysis(failures) ==
    AgentPhase("trend_analysis", "content_strategy", wf.state, failures, "ok")

\* a variant that hands the strategy agent the initial state of the workflow
phase_content_strategy_initial(failures, ext2) ==
    AgentPhase("content_strategy", "content_creation", wf.state, failures, ext2)

phase_content_strategy(failures, ext2) ==
    AgentPhase("content_strategy", "content_creation",
               wf.phases.trend_analysis.output, failures, ext2)

\* a batch phase, after the batch has been run
BatchPhaseReturns(name, next, agent_key, batch) ==
    /\ agents' = [agents EXCEPT ![agent_key] = batch.metrics]
    /\ wf' = [wf EXCEPT !.pc = next,
                        !.started = Append(@, name),
                        !.phases = (name :> batch.result) @@ @]

phase_content_creation(failures) ==
    /\ wf.pc = "content_creation"
    /\ BatchPhaseReturns("content_creation", "visual_assets", "content_writer",
                         _create_content_batch(wf.phases.content_strategy.output,
                                               agents.content_writer, failures))
    /\ UNCHANGED <<workflow_history, clock, reply>>
    /\ UNCHANGED vars

phase_visual_assets(failures) ==
    /\ wf.pc = "visual_assets"
    /\ BatchPhaseReturns("visual_assets", "social_media", "image_generation",
                         _create_visual_assets(wf.phases.content_strategy.output,
                                               wf.phases.content_creation,
                                               agents.image_generation, failures))
    /\ UNCHANGED <<workflow_history, clock, reply>>
    /\ UNCHANGED vars

\* the state phases 5 and 6 are given
SocialInput ==
    Merge(wf.phases.content_strategy.output,
          [content |-> Get(wf.phases.content_creation, "content", <<>>),
           visuals |-> Get(wf.phases.visual_assets, "visuals", <<>>)])

BriefingInput ==
    Merge(SocialInput, [social_optimization |-> wf.phases.social_media.output])

phase_social_media(failures) ==
    AgentPhase("social_media", "client_briefing", SocialInput, failures, "ok")

\* the last phase, and what follows it without an await: the results are
\* compiled, stored in the history and returned
phase_client_briefing(failures, ext2) ==
    AgentPhase("client_briefing", "done", BriefingInput, failures, ext2)

\* execute_single_phase, after the agent has answered with r
SinglePhaseReturns(phase, r) ==
    /\ wf' = [Begun("single") EXCEPT !.pc = "done", !.returned = r.state,
                                     !.raised = (r.kind = "raise")]
    /\ agents' = [agents EXCEPT ![phase] = r.metrics]

\* execute_single_phase with a non-interactive agent: one agent on a state
\* of the caller's; an unknown phase raises ValueError
execute_single_phase(phase, state, failures, ext2) ==
    /\ OrchIdle
    /\ wf.runs < MaxOperations
    /\ IF phase \notin AgentKeys
       THEN /\ wf' = [Begun("single") EXCEPT !.pc = "done", !.raised = TRUE]
            /\ UNCHANGED agents
       ELSE SinglePhaseReturns(
                phase,
                await_execute_with_metrics(_initialize_agents[phase], state,
                                           agents[phase], AgentConfig, failures, ext2))
    /\ reply' = NoReply
    /\ UNCHANGED <<workflow_history, clock>>
    /\ UNCHANGED vars

\* the queries, between operations
get_workflow_history_call(limit) ==
    /\ OrchIdle
    /\ reply' = [op |-> "get_workflow_history", arg |-> limit,
                 value |-> get_workflow_history(workflow_history, limit)]
    /\ UNCHANGED <<agents, workflow_history, wf, clock>>
    /\ UNCHANGED vars

get_agent_metrics_call ==
    /\ OrchIdle
    /\ reply' = [op |-> "get_agent_metrics", arg |-> 0, value |-> get_agent_metrics(agents)]
    /\ UNCHANGED <<agents, workflow_history, wf, clock>>
    /\ UNCHANGED vars

get_system_status_call ==
    /\ OrchIdle
    /\ reply' = [op |-> "get_system_status", arg |-> 0,
                 value |-> get_system_status(agents, workflow_history)]
    /\ UNCHANGED <<agents, workflow_history, wf, clock>>
    /\ UNCHANGED vars

\* a second of wall-clock time passes between operations
tick ==
    /\ OrchIdle
    /\ clock < MaxClock
    /\ clock' = clock + 1
    /\ UNCHANGED <<agents, workflow_history, wf, reply>>
    /\ UNCHANGED vars

OrchNext ==
    \/ \E c \in WorkflowConfigs : execute_workflow(c)
    \/ \E f \in FailureCounts : phase_trend_analysis(f)
    \/ \E f \in FailureCounts, ext2 \in CalendarOutcomes : phase_content_strategy(f, ext2)
    \/ \E f \in FailureCounts : phase_content_creation(f)
    \/ \E f \in FailureCounts : phase_visual_assets(f)
    \/ \E f \in FailureCounts : phase_social_media(f)
    \/ \E f \in FailureCounts, ext2 \in BriefingOutcomes : phase_client_briefing(f, ext2)
    \/ \E p \in SinglePhases, s \in SinglePhaseStates, f \in FailureCounts :
           execute_single_phase(p, s, f, "ok")
    \/ \E limit \in 0..MaxLimit : get_workflow_history_call(limit)
    \/ get_agent_metrics_call
    \/ get_system_status_call
    \/ tick

OrchSpec == Init /\ [][OrchNext]_all_vars

(***************************************************************************)
(* The workflow with the dialogue of its last phase step by step: every    *)
(* request of the client briefing to the capability and every answer of    *)
(* the user is a step.  The five phases before it find the capability      *)
(* working, except that the calendar request may fail.                     *)
(***************************************************************************)
\* phase 6 up to the first request of the agent: the call is counted and the
\* dialogue opens
briefing_open ==
    /\ wf.pc = "client_briefing"
    /\ wf.kind = "workflow"
    /\ wf.brief.stage = "idle"
    /\ wf' = [wf EXCEPT !.state = BriefingInput, !.brief = NoBriefing]
    /\ agents' = [agents EXCEPT !.client_briefing.total_calls = @ + 1]
    /\ UNCHANGED <<workflow_history, clock, reply>>
    /\ UNCHANGED vars

\* the agent has answered with output: the phase result is stored, the
\* results are compiled, recorded and returned
BriefingReturns(output, m) ==
    /\ agents' = [agents EXCEPT !.client_briefing = m]
    /\ \E phases \in {("client_briefing" :>
                            [output |-> output,
                             metrics |-> get_metrics(ClientBriefingAgent, m, AgentConfig)])
                       @@ wf.phases} :
           \E final_results \in {_compile_results([phases |-> phases], wf.workflow_id)} :
               WorkflowReturns(final_results)

\* what the wrapper does with the outcome r of a step of the dialogue
BriefingStep(r) ==
    IF r.kind = "continue"
    THEN /\ wf' = [wf EXCEPT !.brief = r.brief]
         /\ UNCHANGED <<agents, workflow_history>>
    ELSE IF r.kind = "return"
    THEN BriefingReturns(r.state, RecordSuccess(agents.client_briefing))
    ELSE IF RetryAgain(wf.brief.attempt, AgentConfig)
    THEN /\ wf' = [wf EXCEPT !.brief = [NoBriefing EXCEPT !.attempt = wf.brief.attempt + 1]]
         /\ UNCHANGED <<agents, workflow_history>>
    ELSE BriefingReturns(_handle_error(ClientBriefingAgent, wf.state, r.exc),
                         RecordFailure(agents.client_briefing))

\* one turn of the question loop: the capability answers, the user replies
briefing_ask(resp) ==
    /\ wf.pc = "client_briefing"
    /\ wf.brief.stage = "ask"
    /\ \E r \in {ClientBriefingAgent_ask(wf.state, wf.brief, resp)} : BriefingStep(r)
    /\ UNCHANGED <<clock, reply>>
    /\ UNCHANGED vars

\* the synthesis of the brief and the user's confirmation
briefing_synthesis(ext, confirmation) ==
    /\ wf.pc = "client_briefing"
    /\ wf.brief.stage = "synthesis"
    /\ \E r \in {ClientBriefingAgent_synthesis(wf.state, wf.brief, ext, confirmation)} :
           BriefingStep(r)
    /\ UNCHANGED <<clock, reply>>
    /\ UNCHANGED vars

\* the steps of a workflow in flight
WorkflowStep ==
    \/ phase_trend_analysis(0)
    \/ \E ext2 \in ExtOutcomes : phase_content_strategy(0, ext2)
    \/ phase_content_creation(0)
    \/ phase_visual_assets(0)
    \/ phase_social_media(0)
    \/ briefing_open
    \/ \E resp \in Responses : briefing_ask(resp)
    \/ \E ext \in ExtOutcomes, c \in Confirmations : briefing_synthesis(ext, c)

DialogueNext ==
    \/ \E c \in WorkflowConfigs : execute_workflow(c)
    \/ WorkflowStep

DialogueSpec == Init /\ [][DialogueNext]_all_vars

\* every request to the capability and every prompt of the user returns, so
\* a workflow in flight takes its next step
DialogueFairSpec == DialogueSpec /\ WF_all_vars(WorkflowStep)

(***************************************************************************)
(* Overlapping invocations.  Several coroutines of execute_with_metrics    *)
(* run on one event loop, on the same or on different agent instances.     *)
(* A coroutine is suspended only at an await that yields to the loop:      *)
(* asyncio.wait_for around each attempt and asyncio.sleep between two      *)
(* attempts.  The statements between two such awaits run without another   *)
(* coroutine in between; the cores call the capability synchronously, so   *)
(* an attempt is one step.  config is not changed while coroutines run.    *)
(***************************************************************************)
\* a variant of the except branch that writes back the counters the
\* coroutine read when it began
FailureUpdate_from_snapshot(m, before) ==
    RecordFailure([before EXCEPT !.total_calls = @ + 1])

\* "self.metrics.error_count += 1" and the success_rate assignment: read
\* and written in the except branch, with no await between them
FailureUpdate(m, before) == RecordFailure(m)

\* the mappings the overlapping invocations are given: the last one is what
\* an earlier, failed invocation returned, as the workflow passes it on
TaskStates ==
    {EmptyState, [topic |-> Topic],
     _handle_error(EnhancedTrendAnalysisAgent, [topic |-> Topic],
                   [type |-> "APIError", msg |-> "capability failed"])}

\* a coroutine starts: "self.metrics.total_calls += 1", then the first
\* await of an attempt.  Coroutines are created in the order of their index.
task_start(t, a, s) ==
    /\ tasks[t].pc = "idle"
    /\ t > 1 => tasks[t - 1].pc # "idle"
    /\ metrics' = [metrics EXCEPT ![a].total_calls = @ + 1]
    /\ tasks' = [tasks EXCEPT ![t] = [NoTask EXCEPT !.pc = "attempt", !.agent = a, !.state = s,
                                                    !.before = metrics[a]]]
    /\ UNCHANGED <<config, inv, invocations, updates>>
    /\ UNCHANGED orch_vars

\* the awaited attempt of coroutine t finishes and the coroutine runs on to
\* its next await or to its end
task_attempt(t, ext, ext2, overrun) ==
    /\ tasks[t].pc = "attempt"
    /\ LET a == tasks[t].agent
           cfg == config[a]
       IN  \E r \in {_execute_with_timeout(a, tasks[t].state, cfg, ext, ext2, overrun)} :
               /\ overrun => r.calls > 0
               /\ IF r.kind = "return"
                  THEN /\ tasks' = [tasks EXCEPT ![t].pc = "returned", ![t].returned = r.state]
                       /\ metrics' = [metrics EXCEPT ![a] = RecordSuccess(@)]
                  ELSE IF RetryAgain(tasks[t].attempt, cfg)
                  THEN /\ tasks' = [tasks EXCEPT ![t].pc = "sleep"]
                       /\ UNCHANGED metrics
                  ELSE IF Caught(r.exc)
                  THEN /\ tasks' = [tasks EXCEPT ![t].pc = "failed",
                                                  ![t].returned =
                                                      _handle_error(a, tasks[t].state, r.exc)]
                       /\ metrics' = [metrics EXCEPT ![a] = FailureUpdate(@, tasks[t].before)]
                  ELSE /\ tasks' = [tasks EXCEPT ![t].pc = "raised"]
                       /\ UNCHANGED metrics
    /\ UNCHANGED <<config, inv, invocations, updates>>
    /\ UNCHANGED orch_vars

\* asyncio.sleep of coroutine t returns
task_wake(t) ==
    /\ tasks[t].pc = "sleep"
    /\ tasks' = [tasks EXCEPT ![t].pc = "attempt", ![t].attempt = @ + 1]
    /\ UNCHANGED <<metrics, config, inv, invocations, updates>>
    /\ UNCHANGED orch_vars

TasksNext ==
    \/ \E t \in 1..MaxTasks, a \in Agents, s \in TaskStates : task_start(t, a, s)
    \/ \E t \in 1..MaxTasks, ext \in ExtOutcomes, ext2 \in ExtOutcomes, overrun \in BOOLEAN :
           task_attempt(t, ext, ext2, overrun)
    \/ \E t \in 1..MaxTasks : task_wake(t)

TasksSpec == Init /\ [][TasksNext]_all_vars

(***************************************************************************)
(* Properties.                                                             *)
(***************************************************************************)
Wrapped == inv.agent \in Agents
Done == inv.pc = "done"
Attempts == Len(inv.log)
Failed(i) == inv.log[i].kind = "raise"
AllAttemptsFailed == Done /\ Wrapped /\ Attempts > 0 /\ \A i \in 1..Attempts : Failed(i)
Succeeded == Done /\ Wrapped /\ Attempts > 0 /\ inv.log[Attempts].kind = "return"

\* the name and the error key each agent is expected to report
ExpectedName(a) ==
    CASE a = TrendAnalysisAgent -> "Trend Analysis Agent"
      [] a = EnhancedTrendAnalysisAgent -> "Enhanced Trend Analysis Agent"
      [] a = EnhancedContentStrategyAgent -> "Enhanced Content Strategy Agent"
      [] a = SocialMediaAgent -> "Social Media Agent"
      [] a = TwitterAgent -> "Twitter Specialist Agent"

ExpectedErrorKey(a) ==
    CASE a = TrendAnalysisAgent -> "trend_analysis_agent_error"
      [] a = EnhancedTrendAnalysisAgent -> "enhanced_trend_analysis_agent_error"
      [] a = EnhancedContentStrategyAgent -> "enhanced_content_strategy_agent_error"
      [] a = SocialMediaAgent -> "social_media_agent_error"
      [] a = TwitterAgent -> "twitter_specialist_agent_error"

\* the returned state is the input state plus the two error entries
ErrorAugmented(a, s, r, msg) ==
    /\ DOMAIN r = DOMAIN s \cup {"error", ExpectedErrorKey(a)}
    /\ \A k \in DOMAIN s \ {"error", ExpectedErrorKey(a)} : r[k] = s[k]
    /\ DOMAIN r.error = {"error", "agent", "timestamp"}
    /\ r.error.error = msg
    /\ r.error.agent = ExpectedName(a)
    /\ r[ExpectedErrorKey(a)] = msg

\* C1: execute_with_metrics never raises to its caller, and when every
\* attempt has failed it returns the input state augmented with an `error`
\* field {error message, agent name, timestamp} and the key
\* <agent name lower-cased, spaces as underscores>_error.
C1_FailureContained ==
    /\ ~inv.raised
    /\ AllAttemptsFailed =>
           ErrorAugmented(inv.agent, inv.state, inv.returned, inv.last_error.msg)

C1_Witness ==
    /\ AllAttemptsFailed
    /\ inv.agent = EnhancedTrendAnalysisAgent
    /\ inv.state = [topic |-> Topic]
    /\ inv.last_error.type = "APIError"
    /\ "enhanced_trend_analysis_agent_error" \in DOMAIN inv.returned

\* C2: when the core logic fails on every attempt and retry_count = n, the
\* core logic is executed exactly n + 1 times, after which the wrapper
\* returns a state with an `error` field and does not raise; at no moment
\* have more than n + 1 attempts been made.
C2_RetryExhaustion ==
    /\ Wrapped => Attempts <= inv.cfg.retry_count + 1
    /\ AllAttemptsFailed =>
           /\ Attempts = inv.cfg.retry_count + 1
           /\ "error" \in DOMAIN inv.returned
           /\ ~inv.raised

C2_Witness ==
    /\ AllAttemptsFailed
    /\ inv.cfg.retry_count = 2
    /\ Attempts = 3
    /\ inv.ext_calls = 3

\* the field the successful core logic of each agent adds
ProducedKey(a) ==
    CASE a = TrendAnalysisAgent -> "trend_analysis_report"
      [] a = EnhancedTrendAnalysisAgent -> "trend_analysis_report"
      [] a = EnhancedContentStrategyAgent -> "content_strategy"
      [] a = SocialMediaAgent -> "optimized_content"
      [] a = TwitterAgent -> "specialized_draft"

\* C3: when the core logic fails k times and then succeeds (k <= retry_count),
\* the invocation returns the successful result with no `error` entry added,
\* the success is the last attempt, and the metrics change by
\* total_calls + 1 and error_count + 0.
C3_RetryThenSucceed ==
    Succeeded =>
        /\ \A i \in 1..(Attempts - 1) : Failed(i)
        /\ Attempts - 1 <= inv.cfg.retry_count
        /\ ~inv.raised
        /\ ProducedKey(inv.agent) \in DOMAIN inv.returned
        /\ {"error", ExpectedErrorKey(inv.agent)} \cap DOMAIN inv.returned \subseteq DOMAIN inv.state
        /\ metrics[inv.agent].total_calls = inv.before.total_calls + 1
        /\ metrics[inv.agent].error_count = inv.before.error_count

C3_Witness ==
    /\ Succeeded
    /\ inv.cfg.retry_count = 3
    /\ Attempts = 3
    /\ Failed(1) /\ Failed(2)
    /\ inv.agent = EnhancedTrendAnalysisAgent
    /\ metrics[inv.agent].total_calls = 1
    /\ metrics[inv.agent].error_count = 0

\* C4: after every terminal outcome of execute_with_metrics the agent's
\* success_rate equals (total_calls - error_count) / total_calls.
C4_SuccessRateIsRatio ==
    Done /\ Wrapped =>
        LET m == metrics[inv.agent]
        IN  m.success_rate.num * m.total_calls
                = (m.total_calls - m.error_count) * m.success_rate.den

\* C5: every key of the input state is a key of the state the agent returns,
\* for every agent, on success, on skip and on contained failure.
C5_StateMonotonic ==
    Done /\ ~inv.raised => DOMAIN inv.state \subseteq DOMAIN inv.returned

\* the agents that require `topic`
TopicAgents == {TrendAnalysisAgent, EnhancedTrendAnalysisAgent,
                EnhancedContentStrategyAgent, ContentStrategyAgent}

MissingTopic ==
    /\ inv.pc # "idle"
    /\ inv.agent \in TopicAgents
    /\ "topic" \in DOMAIN inv.state => inv.state.topic = ""

\* the field by which the returned state tells that the step did not run
SkipMarked(a, r) ==
    CASE a = TrendAnalysisAgent ->
             /\ "trend_analysis_report" \in DOMAIN r
             /\ r.trend_analysis_report = "Trend analysis could not be performed."
      [] a = ContentStrategyAgent ->
             /\ "ideas" \in DOMAIN r
             /\ r.ideas = <<>>
      [] OTHER ->
             /\ "error" \in DOMAIN r
             /\ r.error.agent = ExpectedName(a)
             /\ ExpectedErrorKey(a) \in DOMAIN r

MissingRequiredField ==
    \/ MissingTopic
    \/ inv.agent = SocialMediaAgent /\ ~HasItems(inv.state, "content")
    \/ inv.agent = TwitterAgent /\ ~HasText(inv.state, "draft")

\* C7: when the required field is absent the core logic is executed at most
\* once in the invocation and no backoff sleep happens.
C7_MissingFieldNotRetried ==
    MissingRequiredField =>
        /\ Attempts <= 1
        /\ inv.pc # "sleep"
        /\ inv.sleeps = <<>>

\* C8: an agent that requires `topic`, run on the empty state, returns the
\* empty state plus exactly one marker field and leaves total_calls as it was.
C8_EmptyStateRun ==
    Done /\ inv.agent \in TopicAgents /\ inv.state = EmptyState =>
        /\ Cardinality(DOMAIN inv.returned) = 1
        /\ Wrapped => metrics[inv.agent].total_calls = inv.before.total_calls

\* C9: an attempt whose core logic runs longer than config.timeout ends with
\* a failure of kind TimeoutError.
C9_OverrunIsTimeout ==
    Wrapped /\ Attempts > 0 /\ inv.overran =>
        /\ inv.log[Attempts].kind = "raise"
        /\ inv.log[Attempts].type = "TimeoutError"

\* C10: the sleep between failed attempt k and attempt k + 1 lasts
\* retry_delay * k, so the delays increase strictly; every failed attempt
\* but the last possible one is followed by one sleep, and no sleep follows
\* a successful attempt or the final failed attempt.
C10_LinearBackoff ==
    Wrapped =>
        /\ \A k \in 1..Len(inv.sleeps) : inv.sleeps[k] = inv.cfg.retry_delay * k
        /\ \A k \in 1..(Len(inv.sleeps) - 1) : inv.sleeps[k] < inv.sleeps[k + 1]
        /\ Len(inv.sleeps) <= inv.cfg.retry_count
        /\ inv.pc = "attempt" => Len(inv.sleeps) = Attempts
        /\ inv.pc \in {"sleep", "done"} => Len(inv.sleeps) = Attempts - 1

C10_Witness ==
    /\ AllAttemptsFailed
    /\ inv.cfg.retry_delay = 2
    /\ inv.sleeps = <<2, 4, 6>>

(***************************************************************************)
(* Properties of the orchestrator.                                         *)
(***************************************************************************)
\* execute_workflow has returned its record
WorkflowDone == wf.kind = "workflow" /\ wf.pc = "done"

\* the phases of a record whose result is the output of one agent invocation
AgentPhases == {"trend_analysis", "content_strategy", "social_media", "client_briefing"}

\* the output of the agent phase p of record rec carries that agent's error
\* marker
PhaseFailed(rec, p) == ErrorKey(_initialize_agents[p]) \in DOMAIN rec.phases[p].output

\* a fraction below one
BelowOne(rate) == rate.num < rate.den

\* C11: a failed agent invocation does not stop the workflow: when a phase's
\* output carries its agent's error marker, every phase has still been run,
\* the returned record has status completed and its success_rate is below
\* 1.0; a record with status failed comes only from a failure of the
\* orchestration itself, before any agent was invoked.
C11_FailedPhaseIsContained ==
    WorkflowDone =>
        IF wf.returned.status = "completed"
        THEN /\ wf.started = Phases
             /\ DOMAIN wf.returned.phases = {Phases[i] : i \in 1..Len(Phases)}
             /\ (\E p \in AgentPhases : PhaseFailed(wf.returned, p))
                    => BelowOne(wf.returned.summary.success_rate)
        ELSE /\ wf.returned.status = "failed"
             /\ wf.started = <<>>
             /\ wf.config.kind # "dict"

\* the first agent failed on every attempt and the workflow went on to the
\* client briefing and completed
C11_Witness ==
    /\ WorkflowDone
    /\ wf.returned.status = "completed"
    /\ PhaseFailed(wf.returned, "trend_analysis")
    /\ "creative_brief" \in DOMAIN wf.returned.phases.client_briefing.output
    /\ agents.trend_analysis.error_count > 0

\* the result of phase p of record rec carries an `error` marker: the output
\* of the agent, or what was kept of the output of a batch item
CarriesErrorMarker(rec, p) ==
    CASE p \in AgentPhases -> "error" \in DOMAIN rec.phases[p].output
      [] p = "content_creation" ->
             \E i \in 1..Len(rec.phases[p].content) :
                 "error" \in DOMAIN rec.phases[p].content[i].metadata
      [] OTHER -> FALSE

\* the phases of a record without an `error` marker
CleanPhases(rec) == {p \in DOMAIN rec.phases : ~CarriesErrorMarker(rec, p)}

\* C12: the success_rate of a completed workflow is the number of phases
\* whose result carries no `error` marker divided by the number of phases
\* executed, so a run in which no agent failed has success_rate 1.0.
C12_SuccessRateIsCleanShare ==
    (WorkflowDone /\ wf.returned.status = "completed") =>
        LET rate == wf.returned.summary.success_rate
            clean == Cardinality(CleanPhases(wf.returned))
            executed == Cardinality(DOMAIN wf.returned.phases)
        IN  /\ rate.num * executed = clean * rate.den
            /\ clean = executed => rate.num = rate.den

\* C13: execute_workflow never raises to its caller: for every
\* workflow_config, the empty one and one that is no mapping included, it
\* returns a record with workflow_id and status; when the orchestration
\* itself raises, the record has status failed and the error message.
C13_WorkflowNeverRaises ==
    WorkflowDone =>
        /\ ~wf.raised
        /\ {"workflow_id", "status"} \subseteq DOMAIN wf.returned
        /\ wf.returned.workflow_id = wf.workflow_id
        /\ wf.returned.status \in {"completed", "failed"}
        /\ InitialState(wf.workflow_id, wf.config).kind = "raise" =>
               /\ wf.returned.status = "failed"
               /\ wf.returned.error = InitialState(wf.workflow_id, wf.config).exc.msg

\* a workflow_config that is no mapping made the orchestration raise, and
\* the caller got the failed record
C13_Witness ==
    /\ WorkflowDone
    /\ wf.config = NotAMapping
    /\ wf.returned.status = "failed"
    /\ wf.returned.workflow_id = wf.workflow_id
    /\ wf.returned.error # ""

\* C14: every workflow run, completed or failed, appends exactly one record
\* to the history: after N runs get_workflow_history(N) returns N records in
\* execution order, the last of them being the record of the run that has
\* just returned.
C14_EveryRunIsRecorded ==
    OrchIdle =>
        LET N == wf.workflows
            recent == get_workflow_history(workflow_history, N)
        IN  /\ Len(recent) = N
            /\ WorkflowDone => (N > 0 /\ recent[N] = wf.returned)

\* h is an initial part of g
IsPrefix(h, g) == Len(h) <= Len(g) /\ SubSeq(g, 1, Len(h)) = h

\* C15: the history is append-only: in every step of execute_workflow,
\* execute_single_phase and the three queries the history before the step is
\* a prefix of the history after it, so no record is removed, reordered or
\* changed once appended, whatever the agents are invoked for later.
C15_HistoryAppendOnly == [][IsPrefix(workflow_history, workflow_history')]_all_vars

\* two workflows are recorded, and the first record still shows the metrics
\* its agents had then although they have been invoked since
C15_Witness ==
    /\ Len(workflow_history) = 2
    /\ workflow_history[1].phases.trend_analysis.metrics.total_calls = 1
    /\ agents.trend_analysis.total_calls = 2
    /\ workflow_history[1].phases.trend_analysis.metrics.error_count
           # agents.trend_analysis.error_count

\* the smaller of two numbers
Min(a, b) == IF a < b THEN a ELSE b

\* the last n records of history h, oldest first
LastRecords(h, n) == SubSeq(h, Len(h) - n + 1, Len(h))

\* C16: get_workflow_history(limit) returns, for every limit >= 0 and every
\* history of length L, exactly the last min(limit, L) records, oldest
\* first; limit 0 returns no records, an empty history an empty list.
C16_HistoryReturnsLastRecords ==
    reply.op = "get_workflow_history" =>
        reply.value = LastRecords(workflow_history, Min(reply.arg, Len(workflow_history)))

\* a success rate above 0.8
Above80Percent(rate) == 5 * rate.num > 4 * rate.den

\* C17: get_system_status reports healthy exactly when the success_rate of
\* every agent is above 0.8, and degraded otherwise; last_workflow is the id
\* of the most recently recorded workflow, or none when nothing is recorded;
\* a fresh orchestrator is healthy with agents_initialized the number of
\* agents.
C17_SystemStatus ==
    reply.op = "get_system_status" =>
        /\ reply.value.system_health \in {"healthy", "degraded"}
        /\ reply.value.system_health = "healthy"
               <=> \A k \in DOMAIN agents : Above80Percent(agents[k].success_rate)
        /\ reply.value.last_workflow =
               IF workflow_history = <<>> THEN None
               ELSE workflow_history[Len(workflow_history)].workflow_id
        /\ reply.value.agents_initialized = Cardinality(DOMAIN _initialize_agents)
        /\ wf.runs = 0 => /\ reply.value.system_health = "healthy"
                          /\ reply.value.last_workflow = None

\* the status after a recorded workflow in which some agent failed and
\* another did not
C17_Witness ==
    /\ reply.op = "get_system_status"
    /\ reply.value.system_health = "degraded"
    /\ reply.value.last_workflow = wf.workflow_id
    /\ workflow_history # <<>>
    /\ \E k \in AgentKeys : agents[k].error_count > 0
    /\ \E k \in AgentKeys : agents[k].total_calls > 0 /\ agents[k].error_count = 0

\* the results of the phases run so far: kept in wf during the run and in
\* the returned record afterwards
PhaseResults == IF wf.pc = "done" THEN wf.returned.phases ELSE wf.phases

\* C18: the phases of a workflow run in the fixed order trend_analysis,
\* content_strategy, content_creation, visual_assets, social_media,
\* client_briefing, each after the one before it has returned; the
\* trend-analysis agent is given the initial state and the content-strategy
\* agent exactly the state the trend-analysis agent returned.
C18_PhaseOrder ==
    (wf.kind = "workflow" /\ InitialState(wf.workflow_id, wf.config).kind = "return") =>
        /\ IsPrefix(wf.started, Phases)
        /\ wf.pc # "done" => wf.pc = Phases[Len(wf.started) + 1]
        /\ wf.pc = "done" => wf.started = Phases
        /\ DOMAIN PhaseResults = {wf.started[i] : i \in 1..Len(wf.started)}
        /\ "trend_analysis" \in DOMAIN wf.inputs =>
               wf.inputs.trend_analysis = InitialState(wf.workflow_id, wf.config).state
        /\ "content_strategy" \in DOMAIN wf.inputs =>
               wf.inputs.content_strategy = PhaseResults.trend_analysis.output

\* the first two phases have returned, the third is about to begin, and the
\* strategy agent was given the output of the trend analysis, which is not
\* the initial state
C18_Witness ==
    /\ wf.kind = "workflow"
    /\ wf.pc = "content_creation"
    /\ wf.started = <<"trend_analysis", "content_strategy">>
    /\ wf.inputs.content_strategy = wf.phases.trend_analysis.output
    /\ wf.inputs.content_strategy # wf.state
    /\ "content_calendar" \in DOMAIN wf.phases.content_strategy.output

\* a workflow is in flight
WorkflowInFlight == wf.kind = "workflow" /\ wf.pc # "done"

\* C19: when the capability calls and the user prompts return, every phase
\* that has started comes to an end and every execute_workflow call
\* eventually returns its record; the client briefing asks a bounded number
\* of questions: at most MaxTurns in a dialogue, which is restarted at most
\* RecursionLimit times in each of at most retry_count + 1 attempts.
C19_WorkflowTerminates ==
    /\ [](/\ wf.brief.turn <= MaxTurns
          /\ wf.brief.depth <= RecursionLimit
          /\ wf.brief.attempt <= DefaultRetryCount)
    /\ \A i \in 1..Len(Phases) :
           (WorkflowInFlight /\ wf.pc = Phases[i]) ~> (wf.pc # Phases[i])
    /\ WorkflowInFlight ~> (WorkflowDone /\ "status" \in DOMAIN wf.returned)

\* the longest dialogue: the agent is in a retried attempt, the user has
\* turned down every brief so far, and the last question of the last
\* restart has been asked
C19_Witness ==
    /\ WorkflowInFlight
    /\ wf.pc = "client_briefing"
    /\ wf.brief.attempt = DefaultRetryCount
    /\ wf.brief.depth = RecursionLimit
    /\ wf.brief.turn = MaxTurns
    /\ wf.brief.stage = "synthesis"

\* the calendar the content-strategy phase of record rec produced
PlannedCalendar(rec) == Get(rec.phases.content_strategy.output, "content_calendar", <<>>)

\* C20: the content writer is invoked for at most the first five calendar
\* entries and the image generation for at most the first three content
\* pieces; the results are in calendar order, each carrying the `day` of
\* its calendar entry; total_planned is the length of the whole calendar.
C20_BatchSampling ==
    /\ agents.content_writer.total_calls <= SampleDays * wf.workflows
    /\ agents.image_generation.total_calls <= SampleVisuals * wf.workflows
    /\ (WorkflowDone /\ wf.returned.status = "completed") =>
            LET calendar == PlannedCalendar(wf.returned)
                created == wf.returned.phases.content_creation
                visuals == wf.returned.phases.visual_assets
            IN  /\ Len(created.content) <= SampleDays
                /\ Len(created.content) <= Len(calendar)
                /\ \A i \in 1..Len(created.content) : created.content[i].day = calendar[i].day
                /\ created.total_created = Len(created.content)
                /\ created.total_planned = Len(calendar)
                /\ Len(visuals.visuals) <= SampleVisuals
                /\ Len(visuals.visuals) <= Len(created.content)
                /\ \A i \in 1..Len(visuals.visuals) :
                       visuals.visuals[i].content_id = created.content[i].day
                /\ visuals.total_created = Len(visuals.visuals)

\* a calendar of more than five entries: five pieces and three visuals were
\* made, and the whole calendar is counted as planned
C20_Witness ==
    /\ WorkflowDone
    /\ wf.returned.status = "completed"
    /\ Len(PlannedCalendar(wf.returned)) > SampleDays
    /\ wf.returned.phases.content_creation.total_created = SampleDays
    /\ wf.returned.phases.content_creation.total_planned = Len(PlannedCalendar(wf.returned))
    /\ wf.returned.phases.visual_assets.total_created = SampleVisuals
    /\ wf.returned.phases.visual_assets.visuals[SampleVisuals].content_id = "3"
    /\ agents.content_writer.total_calls = SampleDays
    /\ agents.image_generation.total_calls = SampleVisuals

\* the writer could not write the piece: its answer is kept in the metadata
WriterFailed(piece) ==
    Get(piece.metadata, "final_content", None) \in
        {"Error: Missing topic or selected idea for the writer.",
         "Sorry, I couldn't generate a draft for this idea."}

C22_CapabilityFailureIsRetried ==
    (Wrapped /\ Attempts > 0 /\ inv.cap_failed) =>
        /\ Failed(Attempts)
        /\ Done => /\ Attempts = inv.cfg.retry_count + 1
                   /\ metrics[inv.agent].error_count = inv.before.error_count + 1

TaskIds == 1..MaxTasks
TasksOf(a) == {t \in TaskIds : tasks[t].pc # "idle" /\ tasks[t].agent = a}
TasksFinished == \A t \in TaskIds : tasks[t].pc \in {"idle", "returned", "failed", "raised"}
TerminalFailures(a) == {t \in TasksOf(a) : tasks[t].pc = "failed"}
\* C24: overlapping invocations of one agent instance lose no metrics
\* update.  Under every interleaving at the awaits, once all invocations
\* have finished the agent's total_calls has grown by the number of
\* invocations and its error_count by the number of them that ended in
\* terminal failure (both counters start at 0).
C24_NoLostMetricsUpdate ==
    TasksFinished =>
        \A a \in Agents :
            /\ metrics[a].total_calls = Cardinality(TasksOf(a))
            /\ metrics[a].error_count = Cardinality(TerminalFailures(a))

\* two invocations of one instance have both ended in terminal failure, and
\* the second began before the first one failed: it found the error_count
\* the first one found
C24_Witness ==
    /\ TasksFinished
    /\ \E a \in Agents : \E t, u \in TerminalFailures(a) :
           /\ t < u
           /\ tasks[u].before.error_count = tasks[t].before.error_count

\* the text SocialMediaAgent keeps for a platform whose agent could not be
\* called: asyncio.run refused to start a loop inside the running one
RefusedInLoop(platform) ==
    "Error optimizing for " \o platform \o ": "
        \o "asyncio.run() cannot be called from a running event loop"

\* the optimized pieces of the social_media phase of the returned workflow
OptimizedContent ==
    IF WorkflowDone /\ wf.returned.status = "completed"
    THEN Get(wf.returned.phases.social_media.output, "optimized_content", <<>>)
    ELSE <<>>

\* C25: the blocking adapter is never entered while an asynchronous
\* execution is in progress: when SocialMediaAgent runs inside the phased
\* workflow, every call to a platform agent runs that agent's core logic
\* and the platform's entry is its specialized_draft, not the text of a
\* refused nested event loop.
C25_PlatformAgentsRunInsideWorkflow ==
    \A i \in 1..Len(OptimizedContent) :
        \A p \in DOMAIN OptimizedContent[i].platform_optimizations :
            OptimizedContent[i].platform_optimizations[p] # RefusedInLoop(p)

\* the invocations of agent a that have returned an error-marked state
ReturnedErrorMarked(a) ==
    {t \in TasksOf(a) : tasks[t].pc \in {"returned", "failed"}
                        /\ "error" \in DOMAIN tasks[t].returned}

C27_WorkflowIdsUnique ==
    \A i, j \in 1..Len(workflow_history) :
        i # j => workflow_history[i].workflow_id # workflow_history[j].workflow_id

\* the results of the phases of the workflow in flight, or of the workflow
\* that has returned them
RunPhases ==
    IF wf.kind # "workflow" THEN <<>>
    ELSE IF wf.pc # "done" THEN wf.phases
    ELSE IF wf.returned.status = "completed" THEN wf.returned.phases
    ELSE <<>>
Results == [phases |-> RunPhases]
Ran(p) == p \in DOMAIN RunPhases
\* the trend_analysis agent failed, the failure was contained and its
\* result carries the `error` field
TrendFailureContained == Ran("trend_analysis") /\ PhaseFailed(Results, "trend_analysis")
TrendError == RunPhases.trend_analysis.output.error
SameTrendError(s) ==
    /\ "error" \in DOMAIN s
    /\ s.error = TrendError
    /\ s.error.agent = Name(EnhancedTrendAnalysisAgent)

SameRate(x, y) == x.num * y.den = y.num * x.den
\* in this step no invocation of any agent fails
NoFailureInStep == \A k \in AgentKeys : agents'[k].error_count = agents[k].error_count
SomeAgentAtOrBelow80Percent(ag) == \E k \in AgentKeys : ~Above80Percent(ag[k].success_rate)
\* this step is a call of get_system_status
StatusTaken ==
    /\ reply'.op = "get_system_status"
    /\ UNCHANGED <<agents, workflow_history, wf, clock>>

\* C29: an agent's success_rate is changed only by a failed invocation of
\* the agent: a step in which its error_count stays leaves its success_rate
\* as it was, whatever the number of successful invocations in the step.
\* Hence, once some agent's success_rate is at or below 0.8, it remains so
\* through every step without a failure and a status taken in such a step
\* says degraded.
C29_SuccessKeepsRate ==
    [][/\ \A k \in AgentKeys :
              agents'[k].error_count = agents[k].error_count
                  => SameRate(agents'[k].success_rate, agents[k].success_rate)
       /\ (SomeAgentAtOrBelow80Percent(agents) /\ NoFailureInStep) =>
              /\ SomeAgentAtOrBelow80Percent(agents')
              /\ StatusTaken => reply'.value.system_health = "degraded"]_all_vars

\* the status says degraded for an agent that has succeeded since its last
\* failure: its success_rate was computed from fewer calls than it has made
C29_Witness ==
    /\ reply.op = "get_system_status"
    /\ reply.value.system_health = "degraded"
    /\ \E k \in AgentKeys :
           /\ ~Above80Percent(agents[k].success_rate)
           /\ agents[k].error_count >= 1
           /\ agents[k].success_rate.den < agents[k].total_calls
           /\ reply.value.agent_metrics[k].total_calls = agents[k].total_calls

\* C30: the counts of the batch phases do not depend on how the agents
\* fared: content_creation.total_created is min(5, length of the content
\* calendar) and visual_assets.total_created is min(3,
\* content_creation.total_created), whether the writer or the image agent
\* succeeded, skipped for a missing input or returned an error-marked state.
C30_BatchCounts ==
    (Ran("content_creation") /\ Ran("visual_assets")) =>
        LET calendar == PlannedCalendar(Results)
        IN  /\ RunPhases.content_creation.total_created = Min(SampleDays, Len(calendar))
            /\ RunPhases.visual_assets.total_created =
                   Min(SampleVisuals, RunPhases.content_creation.total_created)

\* a calendar longer than the sample, written from a state that carries the
\* marker of a failed trend analysis: the writer skipped every piece for its
\* missing input and returned the marker with it, the image agent had no
\* prompt, and five pieces and three visuals are counted
C30_Witness ==
    /\ Ran("content_creation") /\ Ran("visual_assets")
    /\ Len(PlannedCalendar(Results)) > SampleDays
    /\ \A i \in 1..SampleDays :
           /\ WriterFailed(RunPhases.content_creation.content[i])
           /\ "error" \in DOMAIN RunPhases.content_creation.content[i].metadata
    /\ \A i \in 1..SampleVisuals : RunPhases.visual_assets.visuals[i].visual_prompt = ""
    /\ RunPhases.content_creation.total_created = SampleDays
    /\ RunPhases.visual_assets.total_created = SampleVisuals

====
